---- MODULE Spec2Model ----
(***************************************************************************)
(* Model of the frontmatter field index of EnhancedFrontmatterStatsPlugin  *)
(* (src/main.ts): the cache of FrontmatterField records, its four          *)
(* incremental update handlers, clearCache, the TTL-guarded full rebuild   *)
(* in getFields with its value statistics and progress reports, the       *)
(* flattening of nested headers, and the settings handlers that change the *)
(* ignore list, the value analysis and the progress display.               *)
(*                                                                         *)
(* A TFile is modelled by the value of its path and extension at the time  *)
(* it was stored: the handlers compare f.path with the path carried by the *)
(* notification.  The host's metadata cache is the function `vault` from a *)
(* path to the name of the parsed header stored for it.                    *)
(***************************************************************************)
EXTENDS Integers, Sequences, FiniteSets, TLC

VARIABLES
    vault,        \* host: path -> "absent" | "none" (no frontmatter) | header name
    cache,        \* this.cache: sequence of FrontmatterField records
    lastUpdate,   \* this.lastUpdate (milliseconds)
    now,          \* Date.now() (milliseconds)
    ignoreFields, \* settings.ignoreFields (read only through new Set(...))
    cacheTTL,     \* settings.cacheTTL (seconds)
    analyzeValues,\* settings.analyzeValues
    showProgress, \* settings.showProgress
    lastRebuild,  \* Date.now() at the last full rebuild, at activation if there was none (observer)
    pendingClear, \* settings-tab onChange handlers suspended at `await saveSettings()`
    running,      \* the operation the event loop is executing, statement by statement
    op,           \* the operation that produced the current state (observer)
    history       \* what has happened since the index was last emptied or rebuilt (observer)

vars == <<vault, cache, lastUpdate, now, ignoreFields, cacheTTL, analyzeValues,
          showProgress, lastRebuild, pendingClear, running, op, history>>

----------------------------------------------------------------------------
(* Bounds of the model *)

\* Date.now() never exceeds StartNow + MaxElapsed
MaxElapsed == 3000

\* number of settings-tab handlers that may be suspended at once
MaxPending == 1

\* length of the longest files list the model follows
MaxOwners == 3

\* the largest integer a header key of the model spells
MaxIndexKey == 2

(* Program constants *)

\* cacheTTL is in seconds, Date.now() in milliseconds
MsPerSecond == 1000

\* lastUpdate after construction and after clearCache
NeverUpdated == 0

----------------------------------------------------------------------------
(* The host: files and parsed headers *)

MdA  == [path |-> "A.md",  extension |-> "md"]
MdB  == [path |-> "B.md",  extension |-> "md"]
TxtA == [path |-> "A.txt", extension |-> "txt"]

Files == {MdA, MdB, TxtA}

\* a folder: a TAbstractFile that is no TFile and has no extension
DirN == [path |-> "notes", extension |-> ""]

Folders == {DirN}

\* file instanceof TFile
IsTFile(file) == file \notin Folders

Paths == {f.path : f \in Files}

FileAt(p) == CHOOSE f \in Files : f.path = p

\* further markdown documents, present only in the collections of SpecRebuild
Note(n) == [path |-> "n" \o ToString(n) \o ".md", extension |-> "md"]

\* how many of them there are
NumNotes == 7

Notes == {Note(n) : n \in 1..NumNotes}

\* the order in which vault.getMarkdownFiles() lists the files
FileOrder == <<MdA, MdB, TxtA>> \o [n \in 1..NumNotes |-> Note(n)]

\* values of a parsed header: a leaf carries its type and String(value),
\* a nested record carries its entries
Leaf(t, s) == [type |-> t, str |-> s, entries |-> <<>>]
Obj(es)    == [type |-> "object", str |-> "[object Object]", entries |-> es]

\* an array carries String(value) and its elements, keyed by their index
Arr(s, es) == [type |-> "array", str |-> s, entries |-> es]

\* the parsed headers the metadata cache may hold, as sequences of
\* <<key, value>> in key insertion order
Frontmatter(h) ==
    CASE h = "hA"   -> << <<"tags", Leaf("array", "x,y")>>,
                          <<"author", Obj(<< <<"name", Leaf("string", "Bob")>> >>)>> >>
      [] h = "hDup" -> << <<"author.name", Leaf("string", "Al")>>,
                          <<"author", Obj(<< <<"name", Leaf("string", "Bob")>> >>)>> >>
      [] h = "hProto"   -> << <<"constructor", Leaf("string", "Ann")>> >>
      [] h = "hNest"    -> << <<"a", Obj(<< <<"b", Obj(<< <<"c", Leaf("number", "1")>> >>)>>,
                                            <<"d", Arr("[object Object]",
                                                       << <<"0", Obj(<< <<"e", Leaf("number", "1")>> >>)>> >>)>>
                                         >>)>>,
                              <<"f", Leaf("null", "null")>> >>
      [] h = "hInt"     -> << <<"b", Leaf("string", "x")>>,
                              <<"2", Leaf("string", "y")>>,
                              <<"1", Leaf("string", "z")>> >>
      [] h = "hEmptyRec"  -> << <<"meta", Obj(<< >>)>>,
                                <<"tags", Leaf("array", "x")>> >>
      [] h = "hOnlyEmpty" -> << <<"meta", Obj(<< >>)>> >>
      [] h = "hEmptyKey"  -> << <<"", Obj(<< <<"a", Leaf("number", "1")>> >>)>> >>
      [] h = "sDone"    -> << <<"status", Leaf("string", "done")>> >>
      [] h = "sPending" -> << <<"status", Leaf("string", "pending")>> >>
      [] h = "sReview"  -> << <<"status", Leaf("string", "review")>> >>
      [] h = "sDraft"   -> << <<"status", Leaf("string", "draft")>> >>
      [] h = "sOpen"    -> << <<"status", Leaf("string", "open")>> >>
      [] h = "sClosed"  -> << <<"status", Leaf("string", "closed")>> >>
      [] h = "sOne"     -> << <<"status", Leaf("number", "1")>> >>
      [] h = "sOneStr"  -> << <<"status", Leaf("string", "1")>> >>
      [] h = "sArr"     -> << <<"status", Leaf("array", "done,open")>> >>
      [] h = "sNull"    -> << <<"status", Leaf("null", "null")>> >>
      [] OTHER      -> << >>

\* the headers the notifications of the model deliver
HeaderNames == {"hA", "hDup"}

\* the headers of the collections of SpecFlatten
FlattenHeaders ==
    {"hA", "hDup", "hNest", "hInt", "hEmptyRec", "hOnlyEmpty", "hEmptyKey"}

\* the headers note n may have in the collections of SpecRebuild
NoteContents(n) ==
    CASE n = 1 -> {"sDone"}
      [] n = 2 -> {"sDone", "sPending"}
      [] n = 3 -> {"sDone", "sPending", "sReview"}
      [] n = 4 -> {"sPending", "sReview", "sDraft"}
      [] n = 5 -> {"sPending", "sOpen", "none"}
      [] n = 6 -> {"sClosed", "sOne", "sArr", "none"}
      [] n = 7 -> {"sClosed", "sDone", "sOneStr", "sNull", "none"}
      [] OTHER -> {"sClosed", "none"}

\* the properties every object inherits from Object.prototype
ObjectPrototypeKeys ==
    {"constructor", "toString", "toLocaleString", "valueOf", "hasOwnProperty",
     "isPrototypeOf", "propertyIsEnumerable", "__proto__"}

\* what the metadata cache may hold for an existing file
Contents == HeaderNames \cup {"none"}

\* time advances in steps of this many milliseconds
TickSteps == {1000}

\* the cache durations (seconds) the settings tab is given
TTLs == {1, 2}

\* Date.now() at activation: later than any cache duration after time 0
StartNow == 3000

----------------------------------------------------------------------------
(* flattenFrontmatter *)

\* the integer indices in canonical form ("1", not "01")
IndexKeys == {ToString(n) : n \in 0..MaxIndexKey}

IsIndexKey(key) == key \in IndexKeys

IndexValue(key) == CHOOSE n \in 0..MaxIndexKey : ToString(n) = key

\* the order in which Object.entries and Object.values list the own
\* properties of an object whose keys were inserted in the order of the
\* sequence `keys`: integer indices first, ascending, then the other keys in
\* insertion order; the result lists positions of `keys`
ObjectOrder(keys) ==
    LET positions == [i \in 1..Len(keys) |-> i]
    IN  IF \A i \in 1..Len(keys) : ~IsIndexKey(keys[i]) THEN positions
        ELSE SortSeq(SelectSeq(positions, LAMBDA i : IsIndexKey(keys[i])),
                     LAMBDA i, j : IndexValue(keys[i]) < IndexValue(keys[j]))
             \o SelectSeq(positions, LAMBDA i : ~IsIndexKey(keys[i]))

\* Object.entries(obj) of a parsed header or nested record
ObjectEntries(obj) ==
    LET order == ObjectOrder([i \in 1..Len(obj) |-> obj[i][1]])
    IN  [k \in 1..Len(obj) |-> obj[order[k]]]

\* Object.values(fieldsMap) of the records kept in insertion order
ObjectValues(fieldsMap) ==
    LET order == ObjectOrder([i \in 1..Len(fieldsMap) |-> fieldsMap[i].name])
    IN  [k \in 1..Len(fieldsMap) |-> fieldsMap[order[k]]]

\* IsNestedRecord taking a record without keys for a leaf
IsNestedRecord_NonEmpty(value) == value.type = "object" /\ value.entries # << >>

\* line 232: typeof value === 'object' && value !== null && !Array.isArray(value)
IsNestedRecord(value) == value.type = "object"

RECURSIVE flattenFrontmatter(_, _)
RECURSIVE FlattenEntries(_, _)

\* lines 229-237: the loop over the entries
FlattenEntries(entries, prefix) ==
    IF entries = << >> THEN << >>
    ELSE LET key     == Head(entries)[1]
             value   == Head(entries)[2]
             fullKey == IF prefix # "" THEN prefix \o "." \o key ELSE key
             here    == IF IsNestedRecord(value)
                        THEN flattenFrontmatter(value.entries, fullKey)
                        ELSE << <<fullKey, value>> >>
         IN  here \o FlattenEntries(Tail(entries), prefix)

\* lines 226-240
flattenFrontmatter(obj, prefix) == FlattenEntries(ObjectEntries(obj), prefix)

\* the names a field can have
FieldNames ==
    UNION { {e[1] : e \in {flattenFrontmatter(Frontmatter(h), "")[i] :
                              i \in 1..Len(flattenFrontmatter(Frontmatter(h), ""))}} :
            h \in HeaderNames }

----------------------------------------------------------------------------
(* Value statistics *)

\* number of entries topValues keeps after a rebuild (slice(0, 5))
TopN == 5

\* valueStats: undefined
NoValueStats ==
    [defined |-> FALSE, unique |-> 0, topValues |-> << >>, typeDistribution |-> << >>]

\* lines 164-168: valueStats of a record the rebuild creates under analyzeValues
EmptyValueStats ==
    [defined |-> TRUE, unique |-> 0, topValues |-> << >>, typeDistribution |-> << >>]

\* lines 204-205: 'array' for an array, 'null' for null, typeof value otherwise
TypeTag(value) == value.type

\* String(value)
String(value) == value.str

\* lines 206-211: count the type tag
CountType(dist, type) ==
    IF \E i \in 1..Len(dist) : dist[i].type = type
    THEN LET i == CHOOSE n \in 1..Len(dist) : dist[n].type = type
         IN  [dist EXCEPT ![i].count = @ + 1]
    ELSE Append(dist, [type |-> type, count |-> 1])

\* lines 203-224
updateValueStats(stats, value) ==
    LET dist == CountType(stats.typeDistribution, TypeTag(value))
        top  == stats.topValues
    IN  IF TypeTag(value) \in {"object", "array"}
        THEN [stats EXCEPT !.typeDistribution = dist]
        ELSE IF \E i \in 1..Len(top) : top[i].value = String(value)
        THEN LET i == CHOOSE n \in 1..Len(top) : top[n].value = String(value)
             IN  [stats EXCEPT !.typeDistribution = dist,
                               !.topValues = [top EXCEPT ![i].count = @ + 1]]
        ELSE [stats EXCEPT !.typeDistribution = dist,
                           !.topValues = Append(top, [value |-> String(value), count |-> 1]),
                           !.unique = Len(top) + 1]

----------------------------------------------------------------------------
(* Array helpers *)

\* Array.prototype.find by name: index of the first record named key, 0 if none
RECURSIVE FindIndex(_, _)
FindIndex(fields, key) ==
    IF fields = << >> THEN 0
    ELSE IF Head(fields).name = key THEN 1
    ELSE LET r == FindIndex(Tail(fields), key) IN IF r = 0 THEN 0 ELSE r + 1

HasPath(files, p) == \E i \in 1..Len(files) : files[i].path = p

\* Array.prototype.sort((a, b) => b.count - a.count): stable, descending
RECURSIVE InsertByCount(_, _)
InsertByCount(sorted, field) ==
    IF sorted = << >> THEN <<field>>
    ELSE IF Head(sorted).count >= field.count
         THEN <<Head(sorted)>> \o InsertByCount(Tail(sorted), field)
         ELSE <<field>> \o sorted

RECURSIVE SortByCount(_)
SortByCount(fields) ==
    IF fields = << >> THEN << >>
    ELSE InsertByCount(SortByCount(SubSeq(fields, 1, Len(fields) - 1)),
                       fields[Len(fields)])

----------------------------------------------------------------------------
(* The incremental update handlers, as functions of this.cache *)

\* RemoveFile with the count left as it was (files filtered, count not recomputed)
RemoveFile_StaleCount(fields, path) ==
    LET without(field) == SelectSeq(field.files, LAMBDA f : f.path # path)
        mapped == [i \in 1..Len(fields) |->
                      [fields[i] EXCEPT !.files = without(fields[i])]]
    IN  SelectSeq(mapped, LAMBDA field : Len(field.files) > 0)

\* RemoveFile without the filter that drops the records left without a file
RemoveFile_KeepsEmpty(fields, path) ==
    LET without(field) == SelectSeq(field.files, LAMBDA f : f.path # path)
    IN  [i \in 1..Len(fields) |->
            [fields[i] EXCEPT !.files = without(fields[i]),
                              !.count = Len(without(fields[i]))]]

\* lines 63-67 and 76-80: map every record to one without the file, then
\* drop the records whose count became 0
RemoveFile(fields, path) ==
    LET without(field) == SelectSeq(field.files, LAMBDA f : f.path # path)
        mapped == [i \in 1..Len(fields) |->
                      [fields[i] EXCEPT !.files = without(fields[i]),
                                        !.count = Len(without(fields[i]))]]
    IN  SelectSeq(mapped, LAMBDA field : field.count > 0)

\* RenameFile comparing with the new path instead of oldPath
RenameFile_ByNewPath(fields, file, oldPath) ==
    [i \in 1..Len(fields) |->
        [fields[i] EXCEPT !.files =
            [j \in 1..Len(fields[i].files) |->
                IF fields[i].files[j].path = file.path THEN file
                ELSE fields[i].files[j]]]]

\* lines 86-89: replace every element whose path is oldPath by the renamed file
RenameFile(fields, file, oldPath) ==
    [i \in 1..Len(fields) |->
        [fields[i] EXCEPT !.files =
            [j \in 1..Len(fields[i].files) |->
                IF fields[i].files[j].path = oldPath THEN file
                ELSE fields[i].files[j]]]]

\* AddEntry without the search for a record of that name: always a new record
AddEntry_AlwaysPush(fields, key, file) ==
    Append(fields, [name |-> key, count |-> 1, files |-> <<file>>,
                    valueStats |-> NoValueStats])

\* AddEntry without the test that the file is not yet among the files
AddEntry_NoDedup(fields, key, file) ==
    LET found   == FindIndex(fields, key)
        pushed  == IF found = 0
                   THEN Append(fields, [name |-> key, count |-> 0, files |-> << >>,
                                        valueStats |-> NoValueStats])
                   ELSE fields
        i       == IF found = 0 THEN Len(pushed) ELSE found
    IN  [pushed EXCEPT ![i].files = Append(@, file), ![i].count = @ + 1]

\* lines 108-117: one iteration of the loop of addFileToCache for a key
\* that is not ignored
AddEntry(fields, key, file) ==
    LET found   == FindIndex(fields, key)
        pushed  == IF found = 0
                   THEN Append(fields, [name |-> key, count |-> 0, files |-> << >>,
                                        valueStats |-> NoValueStats])
                   ELSE fields
        i       == IF found = 0 THEN Len(pushed) ELSE found
    IN  IF ~HasPath(pushed[i].files, file.path)
        THEN [pushed EXCEPT ![i].files = Append(@, file), ![i].count = @ + 1]
        ELSE pushed

\* lines 105-118: the loop over the flattened entries
RECURSIVE AddEntries(_, _, _, _)
AddEntries(fields, entries, file, ignoreSet) ==
    IF entries = << >> THEN fields
    ELSE LET key == Head(entries)[1]
         IN  AddEntries(IF key \in ignoreSet THEN fields ELSE AddEntry(fields, key, file),
                        Tail(entries), file, ignoreSet)

\* metadataCache.getFileCache(file)?.frontmatter is set
HasFrontmatter(v, path) == path \in DOMAIN v /\ v[path] \notin {"absent", "none"}

\* lines 98-118: addFileToCache without the assignment of lastUpdate
AddFileToCache(fields, file, v, ignoreSet) ==
    IF ~HasFrontmatter(v, file.path) THEN fields
    ELSE AddEntries(fields, flattenFrontmatter(Frontmatter(v[file.path]), ""),
                    file, ignoreSet)

\* AddFileLastUpdate without the assignment of line 120
AddFileLastUpdate_Never(file, v) == lastUpdate

\* line 100 and line 120: lastUpdate after addFileToCache
AddFileLastUpdate(file, v) ==
    IF HasFrontmatter(v, file.path) THEN now ELSE lastUpdate

----------------------------------------------------------------------------
(* The full rebuild of getFields *)

\* MarkdownFiles with the files of every extension
MarkdownFiles_AllFiles(v) ==
    SelectSeq(FileOrder, LAMBDA f : f.path \in DOMAIN v /\ v[f.path] # "absent")

\* vault.getMarkdownFiles()
MarkdownFiles(v) ==
    SelectSeq(FileOrder, LAMBDA f : /\ f.path \in DOMAIN v
                                    /\ v[f.path] # "absent"
                                    /\ f.extension = "md")

\* lines 159-179: one entry whose key is not ignored; fieldsMap is kept as
\* the sequence of its values in insertion order
RebuildEntry(fieldsMap, key, value, file) ==
    LET found  == FindIndex(fieldsMap, key)
        made   == IF found = 0
                  THEN Append(fieldsMap,
                           [name |-> key, count |-> 0, files |-> << >>,
                            valueStats |-> IF analyzeValues THEN EmptyValueStats
                                           ELSE NoValueStats])
                  ELSE fieldsMap
        i      == IF found = 0 THEN Len(made) ELSE found
    IN  IF ~HasPath(made[i].files, file.path)
        THEN [made EXCEPT ![i].count = @ + 1,
                          ![i].files = Append(@, file),
                          ![i].valueStats = IF analyzeValues /\ @.defined
                                            THEN updateValueStats(@, value)
                                            ELSE @]
        ELSE made

\* lines 156-180
RECURSIVE RebuildEntries(_, _, _, _)
RebuildEntries(fieldsMap, entries, file, ignoreSet) ==
    IF entries = << >> THEN fieldsMap
    ELSE LET key   == Head(entries)[1]
             value == Head(entries)[2]
         IN  RebuildEntries(IF key \in ignoreSet THEN fieldsMap
                            ELSE RebuildEntry(fieldsMap, key, value, file),
                            Tail(entries), file, ignoreSet)

\* lines 147-186: the loop over the markdown files
RECURSIVE RebuildFiles(_, _, _, _)
RebuildFiles(fieldsMap, files, v, ignoreSet) ==
    IF files = << >> THEN fieldsMap
    ELSE LET file == Head(files)
             next == IF ~HasFrontmatter(v, file.path) THEN fieldsMap
                     ELSE RebuildEntries(fieldsMap,
                              flattenFrontmatter(Frontmatter(v[file.path]), ""),
                              file, ignoreSet)
         IN  RebuildFiles(next, Tail(files), v, ignoreSet)

\* lines 159 and 172: fieldsMap is a plain object, so a key that names an
\* inherited property finds that property: no record is made for it and the
\* call of files.some on it throws a TypeError
EntryThrows(key, ignoreSet) == key \notin ignoreSet /\ key \in ObjectPrototypeKeys

\* the header of the file makes the loop of lines 156-180 throw
FileThrows(file, v, ignoreSet) ==
    /\ HasFrontmatter(v, file.path)
    /\ LET entries == flattenFrontmatter(Frontmatter(v[file.path]), "")
       IN  \E i \in 1..Len(entries) : EntryThrows(entries[i][1], ignoreSet)

\* the rebuild throws before it assigns this.cache
RebuildThrows(v, ignoreSet) ==
    \E i \in 1..Len(MarkdownFiles(v)) : FileThrows(MarkdownFiles(v)[i], v, ignoreSet)

\* the files whose header was fetched when the rebuild threw
ReadsBeforeThrow(v, ignoreSet) ==
    LET files == MarkdownFiles(v)
        first == CHOOSE i \in 1..Len(files) :
                     /\ FileThrows(files[i], v, ignoreSet)
                     /\ \A j \in 1..(i - 1) : ~FileThrows(files[j], v, ignoreSet)
    IN  {files[j].path : j \in 1..first}

\* lines 151 and 184: the number the callback is given, (processedFiles /
\* totalFiles) * 100, kept as the exact fraction of its two operands
Percentage(processedFiles, totalFiles) ==
    [processedFiles |-> processedFiles, totalFiles |-> totalFiles]

\* lines 144-153 and 182-185: the calls of progressCallback a full rebuild
\* makes, in order; a document without a header reports whenever a callback
\* was supplied, a document with a header only if showProgress is set too, and
\* a rebuild that throws reports nothing from the throwing document on
ProgressReports(v, ignoreSet, progressCallback) ==
    LET markdownFiles == MarkdownFiles(v)
        totalFiles    == Len(markdownFiles)
        completed     == {i \in 1..totalFiles :
                             \A j \in 1..i : ~FileThrows(markdownFiles[j], v, ignoreSet)}
        Reports(processedFiles) ==
            /\ processedFiles \in completed
            /\ progressCallback
            /\ \/ ~HasFrontmatter(v, markdownFiles[processedFiles].path)
               \/ showProgress
        counted       == SelectSeq([i \in 1..totalFiles |-> i], Reports)
    IN  [k \in 1..Len(counted) |-> Percentage(counted[k], totalFiles)]

\* slice(0, n)
Slice(s, n) == SubSeq(s, 1, IF Len(s) < n THEN Len(s) ELSE n)

\* TrimTopValues cutting the list as it was accumulated, without the sort
TrimTopValues_Unsorted(fieldsMap) ==
    IF ~analyzeValues THEN fieldsMap
    ELSE [i \in 1..Len(fieldsMap) |->
             IF fieldsMap[i].valueStats.defined
             THEN [fieldsMap[i] EXCEPT !.valueStats.topValues = Slice(@, TopN)]
             ELSE fieldsMap[i]]

\* lines 188-196: every topValues sorted by count, descending, and cut
TrimTopValues(fieldsMap) ==
    IF ~analyzeValues THEN fieldsMap
    ELSE [i \in 1..Len(fieldsMap) |->
             IF fieldsMap[i].valueStats.defined
             THEN [fieldsMap[i] EXCEPT
                      !.valueStats.topValues = Slice(SortByCount(@), TopN)]
             ELSE fieldsMap[i]]

\* lines 188-198: the index made of the records the loop has collected
FinishRebuild(fieldsMap) ==
    SortByCount(ObjectValues(TrimTopValues(fieldsMap)))

\* lines 141-198: the value assigned to this.cache by a full rebuild
Rebuild(v, ignoreSet) ==
    FinishRebuild(RebuildFiles(<< >>, MarkdownFiles(v), v, ignoreSet))

\* CacheValid with an index exactly cacheTTL seconds old still served
CacheValid_Inclusive ==
    Len(cache) > 0 /\ now - lastUpdate <= cacheTTL * MsPerSecond

\* line 137: the cached index is served
CacheValid ==
    Len(cache) > 0 /\ now - lastUpdate < cacheTTL * MsPerSecond

----------------------------------------------------------------------------
(* The observer: which operation ran last, on what, and what it read *)

\* the kinds of the notifications of the host
Notifications == {"create", "createTwice", "change", "delete", "rename"}

\* valid: the operation is a notification and found a populated index whose
\* cache duration had not expired
Op(kind, path, oldPath, rebuilt, reads) ==
    [kind |-> kind, path |-> path, oldPath |-> oldPath, rebuilt |-> rebuilt,
     reads |-> reads, valid |-> kind \in Notifications /\ CacheValid,
     callback |-> FALSE, progress |-> << >>]

Names(fields) == {fields[i].name : i \in 1..Len(fields)}

\* history = "fresh":  the index was emptied (construction, clearCache) and only
\*                     created / changed notifications of markdown documents followed
\* history = "synced": the index was rebuilt by getFields and only notifications
\*                     of markdown documents and reads followed, the ignore list fixed
\* history = "other":  anything else
AfterNotification(markdown, keepsFresh) ==
    IF ~markdown THEN "other"
    ELSE IF history = "fresh" /\ ~keepsFresh THEN "other"
    ELSE history

----------------------------------------------------------------------------
(* The operations of the plugin; v is the host's state when they run *)

\* updateCacheForFile without the removal of the old data
updateCacheForFile_NoRemove(file, v) ==
    IF file.extension # "md"
    THEN UNCHANGED <<cache, lastUpdate>>
    ELSE /\ cache' = AddFileToCache(cache, file, v, ignoreFields)
         /\ lastUpdate' = AddFileLastUpdate(file, v)

\* lines 59-71
updateCacheForFile(file, v) ==
    IF file.extension # "md"
    THEN UNCHANGED <<cache, lastUpdate>>
    ELSE /\ cache' = AddFileToCache(RemoveFile(cache, file.path), file, v, ignoreFields)
         /\ lastUpdate' = AddFileLastUpdate(file, v)

\* updateCacheOnDelete taken as an invalidation: lastUpdate is reset
updateCacheOnDelete_Invalidates(file) ==
    IF ~IsTFile(file) \/ file.extension # "md"
    THEN UNCHANGED <<cache, lastUpdate>>
    ELSE /\ cache' = RemoveFile(cache, file.path)
         /\ lastUpdate' = NeverUpdated

\* lines 73-81
updateCacheOnDelete(file) ==
    IF ~IsTFile(file) \/ file.extension # "md"
    THEN UNCHANGED <<cache, lastUpdate>>
    ELSE /\ cache' = RemoveFile(cache, file.path)
         /\ UNCHANGED lastUpdate

\* lines 83-90
updateCacheOnRename(file, oldPath) ==
    IF ~IsTFile(file) \/ file.extension # "md"
    THEN UNCHANGED <<cache, lastUpdate>>
    ELSE /\ cache' = RenameFile(cache, file, oldPath)
         /\ UNCHANGED lastUpdate

\* updateCacheOnCreate without the test of line 93
updateCacheOnCreate_AnyFile(file, v) ==
    /\ cache' = AddFileToCache(cache, file, v, ignoreFields)
    /\ lastUpdate' = AddFileLastUpdate(file, v)

\* lines 92-96
updateCacheOnCreate(file, v) ==
    IF IsTFile(file) /\ file.extension = "md"
    THEN /\ cache' = AddFileToCache(cache, file, v, ignoreFields)
         /\ lastUpdate' = AddFileLastUpdate(file, v)
    ELSE UNCHANGED <<cache, lastUpdate>>

\* clearCache without the reset of lastUpdate
clearCache_KeepsTime ==
    /\ cache' = << >>
    /\ UNCHANGED lastUpdate

\* lines 123-126
clearCache ==
    /\ cache' = << >>
    /\ lastUpdate' = NeverUpdated

\* the header lookups a handler that adds the file makes
AddReads(file) == IF file.extension = "md" THEN {file.path} ELSE {}

----------------------------------------------------------------------------
(* Notifications of the host, each delivered with the change it reports *)

\* the model follows the index while no record lists more than MaxOwners files
WithinBounds(fields) == \A i \in 1..Len(fields) : Len(fields[i].files) <= MaxOwners

\* vault 'create': a file appears, its header parsed (content) or not yet ("none")
Created(file, content) ==
    /\ vault[file.path] = "absent"
    /\ vault' = [vault EXCEPT ![file.path] = content]
    /\ updateCacheOnCreate(file, vault')
    /\ WithinBounds(cache')
    /\ op' = Op("create", file.path, "", FALSE, AddReads(file))
    /\ history' = AfterNotification(file.extension = "md", TRUE)
    /\ UNCHANGED <<running, now, ignoreFields, cacheTTL, pendingClear, analyzeValues, showProgress, lastRebuild>>

\* metadataCache 'changed': the parsed header of an existing file is replaced
Changed(file, content) ==
    /\ vault[file.path] # "absent"
    /\ vault' = [vault EXCEPT ![file.path] = content]
    /\ updateCacheForFile(file, vault')
    /\ WithinBounds(cache')
    /\ op' = Op("change", file.path, "", FALSE, AddReads(file))
    /\ history' = AfterNotification(file.extension = "md", TRUE)
    /\ UNCHANGED <<running, now, ignoreFields, cacheTTL, pendingClear, analyzeValues, showProgress, lastRebuild>>

\* vault 'create' delivered once more for a file that exists, its header as it
\* was; the observer tells a notification that repeats the one before it
CreatedAgain(file) ==
    /\ vault[file.path] # "absent"
    /\ updateCacheOnCreate(file, vault)
    /\ WithinBounds(cache')
    /\ op' = Op(IF op.kind \in {"create", "createTwice"} /\ op.path = file.path
                THEN "createTwice" ELSE "create",
                file.path, "", FALSE, AddReads(file))
    /\ history' = AfterNotification(file.extension = "md", TRUE)
    /\ UNCHANGED <<running, vault, now, ignoreFields, cacheTTL, pendingClear, analyzeValues, showProgress, lastRebuild>>

\* vault 'create', 'delete' and 'rename' for a folder (folders are not files
\* of the collection: the vault function does not list them)
FolderNotified(kind, dir) ==
    /\ CASE kind = "create" -> updateCacheOnCreate(dir, vault)
         [] kind = "delete" -> updateCacheOnDelete(dir)
         [] kind = "rename" -> updateCacheOnRename(dir, "old notes")
    /\ op' = Op(kind, dir.path, IF kind = "rename" THEN "old notes" ELSE "", FALSE, {})
    /\ history' = "other"
    /\ UNCHANGED <<running, vault, now, ignoreFields, cacheTTL, pendingClear, analyzeValues, showProgress, lastRebuild>>

\* vault 'delete'
Deleted(file) ==
    /\ vault[file.path] # "absent"
    /\ vault' = [vault EXCEPT ![file.path] = "absent"]
    /\ updateCacheOnDelete(file)
    /\ op' = Op("delete", file.path, "", FALSE, {})
    /\ history' = AfterNotification(file.extension = "md", FALSE)
    /\ UNCHANGED <<running, now, ignoreFields, cacheTTL, pendingClear, analyzeValues, showProgress, lastRebuild>>

\* vault 'rename': the file at oldPath is now `file`; its header moves with it
Renamed(file, oldPath) ==
    /\ oldPath \in Paths
    /\ vault[oldPath] # "absent"
    /\ vault[file.path] = "absent"
    /\ vault' = [vault EXCEPT ![file.path] = vault[oldPath], ![oldPath] = "absent"]
    /\ updateCacheOnRename(file, oldPath)
    /\ op' = Op("rename", file.path, oldPath, FALSE, {})
    /\ history' = AfterNotification(FileAt(oldPath).extension = "md", FALSE)
    /\ UNCHANGED <<running, now, ignoreFields, cacheTTL, pendingClear, analyzeValues, showProgress, lastRebuild>>

----------------------------------------------------------------------------
(* Reads and settings *)

\* lines 136-201: getFields, called with a progress callback or without one;
\* the observer keeps whether one was supplied and what it was given
getFieldsCalled(progressCallback) ==
    /\ IF CacheValid
       THEN /\ UNCHANGED <<cache, lastUpdate, lastRebuild>>
            /\ op' = [Op("getFields", "", "", FALSE, {}) EXCEPT
                          !.callback = progressCallback]
            /\ history' = IF history = "synced" THEN "synced" ELSE "other"
       ELSE IF RebuildThrows(vault, ignoreFields)
       THEN /\ UNCHANGED <<cache, lastUpdate, lastRebuild>>
            /\ op' = [Op("getFieldsThrew", "", "", FALSE,
                         ReadsBeforeThrow(vault, ignoreFields)) EXCEPT
                          !.callback = progressCallback,
                          !.progress = ProgressReports(vault, ignoreFields,
                                                       progressCallback)]
            /\ history' = "other"
       ELSE /\ cache' = Rebuild(vault, ignoreFields)
            /\ lastUpdate' = now
            /\ lastRebuild' = now
            /\ op' = [Op("getFields", "", "", TRUE,
                         {MarkdownFiles(vault)[i].path : i \in 1..Len(MarkdownFiles(vault))})
                      EXCEPT !.callback = progressCallback,
                             !.progress = ProgressReports(vault, ignoreFields,
                                                          progressCallback)]
            /\ history' = "synced"
    /\ UNCHANGED <<running, vault, now, ignoreFields, cacheTTL, pendingClear, analyzeValues, showProgress>>

\* line 261: StatsModal.onOpen calls getFields with a callback that moves the
\* progress bar, and lists the result
getFields == getFieldsCalled(TRUE)

\* lines 700-703: the toggle assigns showProgress and awaits saveSettings; the
\* cache is left as it is
SetShowProgress(value) ==
    /\ value # showProgress
    /\ showProgress' = value
    /\ op' = Op("setProgress", "", "", FALSE, {})
    /\ UNCHANGED <<running, history, vault, cache, lastUpdate, now, ignoreFields, cacheTTL,
                   pendingClear, analyzeValues, lastRebuild>>

\* lines 711-716: the text area assigns the ignore list and awaits saveSettings
SetIgnoreFields(names) ==
    /\ pendingClear < MaxPending
    /\ ignoreFields' = names
    /\ pendingClear' = pendingClear + 1
    /\ op' = Op("setIgnore", "", "", FALSE, {})
    /\ history' = "other"
    /\ UNCHANGED <<running, vault, cache, lastUpdate, now, cacheTTL, analyzeValues, showProgress, lastRebuild>>

\* lines 689-691: the toggle assigns analyzeValues and awaits saveSettings
SetAnalyzeValues(value) ==
    /\ pendingClear < MaxPending
    /\ value # analyzeValues
    /\ analyzeValues' = value
    /\ pendingClear' = pendingClear + 1
    /\ op' = Op("setAnalyze", "", "", FALSE, {})
    /\ history' = "other"
    /\ UNCHANGED <<running, vault, cache, lastUpdate, now, ignoreFields, cacheTTL, showProgress, lastRebuild>>

\* lines 692 and 717: saveSettings has resolved, the handler clears the cache
SettingsSaved ==
    /\ pendingClear > 0
    /\ pendingClear' = pendingClear - 1
    /\ clearCache
    /\ op' = Op("clearCache", "", "", FALSE, {})
    /\ history' = "fresh"
    /\ UNCHANGED <<running, vault, now, ignoreFields, cacheTTL, analyzeValues, showProgress, lastRebuild>>

\* lines 402-408: "Add to ignore list" of the modal's context menu, for a
\* field the open modal lists (a name some earlier result contained)
IgnoreFromMenu(name) ==
    /\ ignoreFields' = ignoreFields \cup {name}
    /\ clearCache
    /\ op' = Op("menuIgnore", "", "", FALSE, {})
    /\ history' = "fresh"
    /\ UNCHANGED <<running, vault, now, cacheTTL, pendingClear, analyzeValues, showProgress, lastRebuild>>

\* lines 669-672: the cache duration text field
SetCacheTTL(seconds) ==
    /\ cacheTTL # seconds
    /\ cacheTTL' = seconds
    /\ op' = Op("setTTL", "", "", FALSE, {})
    /\ UNCHANGED <<running, history, vault, cache, lastUpdate, now, ignoreFields, pendingClear,
                   analyzeValues, showProgress, lastRebuild>>

\* the clock advances
Tick(ms) ==
    /\ now + ms <= StartNow + MaxElapsed
    /\ now' = now + ms
    /\ op' = Op("tick", "", "", FALSE, {})
    /\ UNCHANGED <<running, history, vault, cache, lastUpdate, ignoreFields, cacheTTL, pendingClear,
                   analyzeValues, showProgress, lastRebuild>>

----------------------------------------------------------------------------
(* The same operations statement by statement: addFileToCache one loop
   iteration at a time, with the push of the file and the increment of the
   count as two steps, and the full rebuild one document at a time *)

\* no operation is running
Idle ==
    [kind |-> "idle", notify |-> "", file |-> MdA, entries |-> << >>,
     pushed |-> FALSE, start |-> << >>, fieldsMap |-> << >>, files |-> << >>]

\* Scheduled taking the next event while an operation is running
Scheduled_Anytime == TRUE

\* lines 59-126 and 136-201: the handlers and clearCache are synchronous
\* functions and getFields contains no await, so the event loop takes the
\* next event only when the running operation has returned
Scheduled == running.kind = "idle"

\* lines 98-103: addFileToCache begins on the index `fields`; without a
\* header it returns at once
BeginAdd(kind, file, fields) ==
    /\ cache' = fields
    /\ UNCHANGED lastUpdate
    /\ IF HasFrontmatter(vault', file.path)
       THEN /\ running' = [Idle EXCEPT
                              !.kind = "add", !.notify = kind, !.file = file,
                              !.start = fields,
                              !.entries = flattenFrontmatter(Frontmatter(vault'[file.path]), "")]
            /\ op' = Op("started", file.path, "", FALSE, AddReads(file))
       ELSE /\ running' = Idle
            /\ op' = Op(kind, file.path, "", FALSE, AddReads(file))

\* lines 92-96, up to the first statement of the loop of addFileToCache
CreatedStepwise(file, content) ==
    /\ Scheduled
    /\ vault[file.path] = "absent"
    /\ vault' = [vault EXCEPT ![file.path] = content]
    /\ IF IsTFile(file) /\ file.extension = "md"
       THEN BeginAdd("create", file, cache)
       ELSE /\ UNCHANGED <<cache, lastUpdate, running>>
            /\ op' = Op("create", file.path, "", FALSE, {})
    /\ history' = AfterNotification(file.extension = "md", TRUE)
    /\ UNCHANGED <<now, ignoreFields, cacheTTL, pendingClear, analyzeValues, showProgress, lastRebuild>>

\* lines 59-70, up to the first statement of the loop of addFileToCache
ChangedStepwise(file, content) ==
    /\ Scheduled
    /\ vault[file.path] # "absent"
    /\ vault' = [vault EXCEPT ![file.path] = content]
    /\ IF file.extension = "md"
       THEN BeginAdd("change", file, RemoveFile(cache, file.path))
       ELSE /\ UNCHANGED <<cache, lastUpdate, running>>
            /\ op' = Op("change", file.path, "", FALSE, {})
    /\ history' = AfterNotification(file.extension = "md", TRUE)
    /\ UNCHANGED <<now, ignoreFields, cacheTTL, pendingClear, analyzeValues, showProgress, lastRebuild>>

\* lines 105-120: the next statement of addFileToCache: skip an ignored key
\* (106), find or create the record and push the file (108-115), increment
\* the count (116), or, after the loop, set lastUpdate (120) and return
AddStep ==
    /\ running.kind = "add"
    /\ IF running.entries = << >>
       THEN /\ lastUpdate' = now
            /\ running' = Idle
            /\ op' = Op(running.notify, running.file.path, "", FALSE,
                        AddReads(running.file))
            /\ UNCHANGED cache
       ELSE LET key   == Head(running.entries)[1]
                found == FindIndex(cache, key)
                made  == IF found = 0
                         THEN Append(cache, [name |-> key, count |-> 0, files |-> << >>,
                                             valueStats |-> NoValueStats])
                         ELSE cache
                i     == IF found = 0 THEN Len(made) ELSE found
            IN  /\ IF key \in ignoreFields
                   THEN /\ UNCHANGED cache
                        /\ running' = [running EXCEPT !.entries = Tail(@)]
                   ELSE IF running.pushed
                   THEN /\ cache' = [cache EXCEPT ![found].count = @ + 1]
                        /\ running' = [running EXCEPT !.entries = Tail(@),
                                                      !.pushed = FALSE]
                   ELSE IF HasPath(made[i].files, running.file.path)
                   THEN /\ cache' = made
                        /\ running' = [running EXCEPT !.entries = Tail(@)]
                   ELSE /\ cache' = [made EXCEPT ![i].files = Append(@, running.file)]
                        /\ running' = [running EXCEPT !.pushed = TRUE]
                /\ op' = Op("step", running.file.path, "", FALSE, {})
                /\ UNCHANGED lastUpdate
    /\ UNCHANGED <<history, vault, now, ignoreFields, cacheTTL, pendingClear,
                   analyzeValues, showProgress, lastRebuild>>

\* lines 72-81: no loop of statements, the index is replaced in one assignment
DeletedStepwise(file) == Scheduled /\ Deleted(file)

\* lines 136-145: getFields returns the cached index, or lists the markdown
\* files and begins the loop over them
getFieldsStepwise ==
    /\ Scheduled
    /\ IF CacheValid
       THEN getFields
       ELSE /\ running' = [Idle EXCEPT !.kind = "rebuild",
                                       !.files = MarkdownFiles(vault)]
            /\ op' = Op("started", "", "", FALSE, {})
            /\ UNCHANGED <<history, vault, cache, lastUpdate, now, ignoreFields,
                           cacheTTL, pendingClear, analyzeValues, showProgress,
                           lastRebuild>>

\* lines 147-200: the next document of the loop of the rebuild, which may
\* throw, or, after the loop, the assignment of the rebuilt index
RebuildStep ==
    /\ running.kind = "rebuild"
    /\ IF running.files = << >>
       THEN /\ cache' = FinishRebuild(running.fieldsMap)
            /\ lastUpdate' = now
            /\ lastRebuild' = now
            /\ running' = Idle
            /\ op' = [Op("getFields", "", "", TRUE,
                         {MarkdownFiles(vault)[i].path : i \in 1..Len(MarkdownFiles(vault))})
                      EXCEPT !.callback = TRUE,
                             !.progress = ProgressReports(vault, ignoreFields, TRUE)]
            /\ history' = "synced"
       ELSE IF FileThrows(Head(running.files), vault, ignoreFields)
       THEN /\ running' = Idle
            /\ op' = [Op("getFieldsThrew", "", "", FALSE,
                         ReadsBeforeThrow(vault, ignoreFields))
                      EXCEPT !.callback = TRUE,
                             !.progress = ProgressReports(vault, ignoreFields, TRUE)]
            /\ history' = "other"
            /\ UNCHANGED <<cache, lastUpdate, lastRebuild>>
       ELSE /\ running' = [running EXCEPT
                              !.fieldsMap = RebuildFiles(@, <<Head(running.files)>>,
                                                         vault, ignoreFields),
                              !.files = Tail(@)]
            /\ op' = Op("step", "", "", FALSE, {})
            /\ UNCHANGED <<history, cache, lastUpdate, lastRebuild>>
    /\ UNCHANGED <<vault, now, ignoreFields, cacheTTL, pendingClear, analyzeValues,
                   showProgress>>

----------------------------------------------------------------------------

\* the ignore lists the text area is given
IgnoreChoices == {{}, {"tags"}}

\* after construction (lines 32-33) and loadSettings (DEFAULT_SETTINGS, lines
\* 22-28, with a cache duration of 1 second standing for the default of 600);
\* the collection is arbitrary
Activated ==
    /\ cache = << >>
    /\ lastUpdate = NeverUpdated
    /\ now = StartNow
    /\ ignoreFields = {}
    /\ cacheTTL = 1
    /\ analyzeValues = FALSE
    /\ showProgress = TRUE
    /\ lastRebuild = StartNow
    /\ pendingClear = 0
    /\ running = Idle
    /\ op = Op("init", "", "", FALSE, {})
    /\ history = "fresh"

Init ==
    /\ vault \in [Paths -> Contents \cup {"absent"}]
    /\ Activated

Next ==
    \/ \E file \in Files, content \in Contents : Created(file, content)
    \/ \E file \in Files, content \in Contents : Changed(file, content)
    \/ \E file \in Files : Deleted(file)
    \/ \E file \in Files, oldPath \in Paths : Renamed(file, oldPath)
    \/ getFields
    \/ \E names \in IgnoreChoices : SetIgnoreFields(names)
    \/ SettingsSaved
    \/ \E name \in FieldNames : IgnoreFromMenu(name)

\* the index under the notifications of the host, reads and changes of the
\* ignore list, at one instant of the clock
Spec == Init /\ [][Next]_vars

\* the markdown files of the timed specification
TimedFiles == {MdA, MdB}

InitTTL == Init /\ vault[TxtA.path] = "absent"

NextTTL ==
    \/ \E file \in TimedFiles, content \in Contents : Created(file, content)
    \/ \E file \in TimedFiles, content \in Contents : Changed(file, content)
    \/ \E file \in TimedFiles : Deleted(file)
    \/ \E file \in TimedFiles, oldPath \in Paths : Renamed(file, oldPath)
    \/ getFields
    \/ \E names \in IgnoreChoices : SetIgnoreFields(names)
    \/ SettingsSaved
    \/ \E name \in FieldNames : IgnoreFromMenu(name)
    \/ \E seconds \in TTLs : SetCacheTTL(seconds)
    \/ \E ms \in TickSteps : Tick(ms)

\* the same operations over the markdown files alone, with the clock
\* advancing and the cache duration changing
SpecTTL == InitTTL /\ [][NextTTL]_vars

NextHost ==
    \/ \E file \in Files, content \in Contents : Created(file, content)
    \/ \E file \in Files : CreatedAgain(file)
    \/ \E file \in Files, content \in Contents : Changed(file, content)
    \/ \E file \in Files : Deleted(file)
    \/ \E file \in Files, oldPath \in Paths : Renamed(file, oldPath)
    \/ \E kind \in {"create", "delete", "rename"}, dir \in Folders :
           FolderNotified(kind, dir)
    \/ getFields

\* the notifications of the host alone, those about folders and repeated
\* ones included, with reads in between; the settings stay as loaded
SpecHost == Init /\ [][NextHost]_vars

\* the headers document A may have in the collections of SpecRebuild
RebuildContents == {"absent", "hDup", "hProto"}

\* the headers of notes 1..n, each taken from what the note may have
RECURSIVE NoteChoices(_)
NoteChoices(n) ==
    IF n = 0 THEN {<< >>}
    ELSE {Append(c, h) : c \in NoteChoices(n - 1), h \in NoteContents(n)}

\* a collection of markdown documents: A and the notes
InitRebuild ==
    /\ vault \in {[p \in Paths \cup {d.path : d \in Notes} |->
                     IF p = MdA.path THEN a
                     ELSE IF p \in Paths THEN "absent"
                     ELSE c[CHOOSE n \in 1..NumNotes : Note(n).path = p]] :
                  a \in RebuildContents, c \in NoteChoices(NumNotes)}
    /\ Activated

NextRebuild ==
    \/ getFields
    \/ \E value \in BOOLEAN : SetAnalyzeValues(value)
    \/ SettingsSaved

\* reads of a fixed collection while the value analysis is switched on and off
SpecRebuild == InitRebuild /\ [][NextRebuild]_vars

\* what the metadata cache may hold for a document of SpecFlatten
FlattenContents == FlattenHeaders \cup {"none"}

InitFlatten ==
    /\ vault \in {[p \in Paths |-> IF p = MdA.path THEN a
                                    ELSE IF p = MdB.path THEN b ELSE "absent"] :
                  a, b \in FlattenContents \cup {"absent"}}
    /\ Activated

NextFlatten ==
    \/ \E file \in TimedFiles, content \in FlattenContents : Created(file, content)
    \/ \E file \in TimedFiles, content \in FlattenContents : Changed(file, content)
    \/ \E file \in TimedFiles : Deleted(file)
    \/ getFields

\* two markdown documents whose headers are nested, hold arrays of records,
\* integer keys, keys with a dot, an empty key and records without keys
SpecFlatten == InitFlatten /\ [][NextFlatten]_vars

\* what the metadata cache may hold for a markdown document of SpecProgress
ProgressContents == {"absent", "none", "hA", "hProto"}

\* a collection of up to three markdown documents, with and without a header
InitProgress ==
    /\ vault \in {[p \in Paths \cup {Note(1).path} |->
                     IF p = MdA.path THEN a
                     ELSE IF p = MdB.path THEN b
                     ELSE IF p = Note(1).path THEN c
                     ELSE "absent"] :
                  a, b, c \in ProgressContents}
    /\ Activated

NextProgress ==
    \/ \E progressCallback \in BOOLEAN : getFieldsCalled(progressCallback)
    \/ \E value \in BOOLEAN : SetShowProgress(value)
    \/ \E value \in BOOLEAN : SetAnalyzeValues(value)
    \/ SettingsSaved

\* reads of a fixed collection, with and without a progress callback, while
\* the progress display and the value analysis are switched on and off
SpecProgress == InitProgress /\ [][NextProgress]_vars

\* what the metadata cache may hold for a document of SpecAnalysis
AnalysisContents == {"sDone", "sPending", "hA", "none"}

InitAnalysis ==
    /\ vault \in {[p \in Paths |-> IF p = MdA.path THEN a
                                    ELSE IF p = MdB.path THEN b ELSE "absent"] :
                  a, b \in AnalysisContents \cup {"absent"}}
    /\ Activated

NextAnalysis ==
    \/ \E file \in TimedFiles, content \in AnalysisContents : Created(file, content)
    \/ \E file \in TimedFiles, content \in AnalysisContents : Changed(file, content)
    \/ \E file \in TimedFiles : Deleted(file)
    \/ \E file \in TimedFiles, oldPath \in Paths : Renamed(file, oldPath)
    \/ getFields
    \/ \E value \in BOOLEAN : SetAnalyzeValues(value)
    \/ SettingsSaved

\* notifications about two markdown documents and reads while the value
\* analysis is switched on and off
SpecAnalysis == InitAnalysis /\ [][NextAnalysis]_vars

\* what the metadata cache may hold for a document of SpecSteps
StepContents == {"hA", "hDup", "hProto", "none"}

InitSteps ==
    /\ vault \in {[p \in Paths |-> IF p = MdA.path THEN a
                                    ELSE IF p = MdB.path THEN b ELSE "absent"] :
                  a, b \in StepContents \cup {"absent"}}
    /\ Activated

NextSteps ==
    \/ \E file \in TimedFiles, content \in StepContents : CreatedStepwise(file, content)
    \/ \E file \in TimedFiles, content \in StepContents : ChangedStepwise(file, content)
    \/ \E file \in TimedFiles : DeletedStepwise(file)
    \/ AddStep
    \/ getFieldsStepwise
    \/ RebuildStep

\* notifications and reads taken apart into their statements
SpecSteps == InitSteps /\ [][NextSteps]_vars

----------------------------------------------------------------------------
(* Properties *)

Owners(field) == {field.files[j].path : j \in 1..Len(field.files)}

\* an index with the order of its records and of their files ignored
IndexView(fields) ==
    {[name |-> fields[i].name, count |-> fields[i].count, owners |-> Owners(fields[i])] :
        i \in 1..Len(fields)}

\* the non-ignored flattened keys of the header the host holds for a path
KeysOf(v, path, ignoreSet) ==
    IF ~HasFrontmatter(v, path) THEN {}
    ELSE LET entries == flattenFrontmatter(Frontmatter(v[path]), "")
         IN  {entries[i][1] : i \in 1..Len(entries)} \ ignoreSet

\* C1: an index populated by a full rebuild and then updated by created /
\* changed / deleted / renamed notifications of markdown documents (ignore list
\* fixed) has the records, counts and owning paths of a full rebuild over the
\* current collection.
C1_IncrementalEqualsRebuild ==
    history = "synced" => IndexView(cache) = IndexView(Rebuild(vault, ignoreFields))

\* C2: after every operation every record's count is the length of its files list.
C2_CountIsFilesLength ==
    \A i \in 1..Len(cache) : cache[i].count = Len(cache[i].files)

\* C2 witness: a change notification has rewritten a two-record index
C2_Witness ==
    /\ op.kind = "change"
    /\ Len(cache) = 2
    /\ \E i \in 1..Len(cache) : cache[i].count = 2

\* C3: no path occurs twice in the files list of a record.
C3_NoDuplicateOwner ==
    \A i \in 1..Len(cache) :
        \A j, k \in 1..Len(cache[i].files) :
            j # k => cache[i].files[j].path # cache[i].files[k].path

\* the paths listed by the records named name
Members(fields, name) ==
    UNION {Owners(fields[i]) : i \in {n \in 1..Len(fields) : fields[n].name = name}}

\* C4: getFields serves the cached index, reading no header, exactly when the
\* index is non-empty and now - lastUpdate is strictly below cacheTTL seconds;
\* otherwise it rebuilds over the current collection and sets lastUpdate to now.
C4_TTLCorrectness ==
    [][op'.kind = "getFields" =>
        IF Len(cache) > 0 /\ now - lastUpdate < cacheTTL * MsPerSecond
        THEN /\ ~op'.rebuilt
             /\ op'.reads = {}
             /\ cache' = cache
             /\ lastUpdate' = lastUpdate
        ELSE /\ op'.rebuilt
             /\ IndexView(cache') =
                    {[name |-> k,
                      count |-> Cardinality({f \in Files : f.extension = "md"
                                   /\ k \in KeysOf(vault, f.path, ignoreFields)}),
                      owners |-> {f.path : f \in {g \in Files : g.extension = "md"
                                   /\ k \in KeysOf(vault, g.path, ignoreFields)}}] :
                        k \in UNION {KeysOf(vault, f.path, ignoreFields) :
                                        f \in {g \in Files : g.extension = "md"}}}
             /\ lastUpdate' = now]_vars

\* C4 witness: a read was served from the cache one second after the last
\* update, under a cache duration of two seconds
C4_Witness ==
    /\ op.kind = "getFields"
    /\ ~op.rebuilt
    /\ now - lastUpdate = MsPerSecond
    /\ cacheTTL = 2

\* C5: no result of getFields contains a record whose name is in the current
\* ignore list.
C5_NoIgnoredFieldReturned ==
    op.kind = "getFields" => Names(cache) \cap ignoreFields = {}

\* every markdown document with a header is a member of a record for each of
\* its non-ignored keys
Covers(fields, v, ignoreSet) ==
    \A f \in Files :
        f.extension = "md" =>
            \A k \in KeysOf(v, f.path, ignoreSet) : f.path \in Members(fields, k)

\* C6: the first getFields call after activation or clearCache, with only
\* created / changed notifications in between, returns records covering every
\* markdown document that has a header.
C6_FirstReadIsFullScan ==
    [][(history = "fresh" /\ op'.kind = "getFields") =>
          Covers(cache', vault', ignoreFields')]_vars

\* C7: after a renamed notification no record's owning set contains the old path.
C7_NoOldPathAfterRename ==
    op.kind = "rename" =>
        \A i \in 1..Len(cache) : op.oldPath \notin Owners(cache[i])

\* C8: the rename of a document to a markdown path replaces the old path by the
\* new one wherever it occurs and changes nothing else: the records, their
\* counts, their other entries and lastUpdate stay, and no header is read.
C8_RenameReplacesInPlace ==
    [][(op'.kind = "rename" /\ FileAt(op'.path).extension = "md") =>
        /\ Len(cache') = Len(cache)
        /\ \A i \in 1..Len(cache) :
              /\ cache'[i].name = cache[i].name
              /\ cache'[i].count = cache[i].count
              /\ Len(cache'[i].files) = Len(cache[i].files)
              /\ \A j \in 1..Len(cache[i].files) :
                    cache'[i].files[j].path =
                        IF cache[i].files[j].path = op'.oldPath THEN op'.path
                        ELSE cache[i].files[j].path
        /\ lastUpdate' = lastUpdate
        /\ op'.reads = {}]_vars

\* C8 witness: A.md was renamed to B.md and author.name, still at count 1,
\* now references B.md
C8_Witness ==
    /\ op.kind = "rename"
    /\ op.oldPath = "A.md"
    /\ op.path = "B.md"
    /\ \E i \in 1..Len(cache) :
          /\ cache[i].name = "author.name"
          /\ cache[i].count = 1
          /\ Owners(cache[i]) = {"B.md"}

\* C9: the deletion of a markdown document removes it from every owning set,
\* lowers the count of each record that contained it by exactly one, drops the
\* records left without owner and leaves the other records as they were.
C9_DeleteLowersCountByOne ==
    [][(op'.kind = "delete" /\ FileAt(op'.path).extension = "md") =>
        /\ Names(cache') \subseteq Names(cache)
        /\ \A i \in 1..Len(cache') : op'.path \notin Owners(cache'[i])
        /\ \A i \in 1..Len(cache) :
              IF op'.path \notin Owners(cache[i])
              THEN \E n \in 1..Len(cache') : cache'[n] = cache[i]
              ELSE IF Owners(cache[i]) = {op'.path}
              THEN cache[i].name \notin Names(cache')
              ELSE \E n \in 1..Len(cache') :
                      /\ cache'[n].name = cache[i].name
                      /\ Owners(cache'[n]) = Owners(cache[i]) \ {op'.path}
                      /\ cache'[n].count = cache[i].count - 1]_vars

\* C10: after a changed notification of a markdown document the document is a
\* member of exactly the records named by the non-ignored flattened keys of its
\* current header, no record is left empty, and the memberships of the other
\* documents are as before.
C10_ChangeReplacesMemberships ==
    [][(op'.kind = "change" /\ FileAt(op'.path).extension = "md") =>
        /\ \A k \in KeysOf(vault', op'.path, ignoreFields') :
              op'.path \in Members(cache', k)
        /\ \A i \in 1..Len(cache') :
              /\ op'.path \in Owners(cache'[i]) =>
                    cache'[i].name \in KeysOf(vault', op'.path, ignoreFields')
              /\ Owners(cache'[i]) # {}
        /\ \A q \in Paths \ {op'.path} : \A k \in FieldNames :
              q \in Members(cache', k) <=> q \in Members(cache, k)]_vars

\* C10 witness: a document changed to a header without `tags` has left the
\* tags record, which another document keeps alive, and is in author.name
C10_Witness ==
    /\ op.kind = "change"
    /\ vault[op.path] = "hDup"
    /\ Members(cache, "tags") # {}
    /\ op.path \notin Members(cache, "tags")
    /\ op.path \in Members(cache, "author.name")

\* C11: a created notification handled a second time in a row for the same
\* markdown document, its header unchanged, leaves the index (records, their
\* order, counts and owning files) as the first handling left it
C11_CreateTwiceIsIdempotent ==
    [][op'.kind = "createTwice" /\ FileAt(op'.path).extension = "md"
          => cache' = cache]_vars

\* the second created notification of a document that owns two fields
C11_Witness ==
    /\ op.kind = "createTwice"
    /\ op.path = MdA.path
    /\ Cardinality({i \in 1..Len(cache) : HasPath(cache[i].files, MdA.path)}) = 2

\* the notifications about something that is no markdown document
NotMarkdown(o) ==
    /\ o.kind \in Notifications
    /\ \/ o.path \in {d.path : d \in Folders}
       \/ o.path \in Paths /\ FileAt(o.path).extension # "md"

\* C17: a notification for a file of another extension or for a folder
\* leaves the index and lastUpdate unchanged
C17_NonMarkdownIsIgnored ==
    [][NotMarkdown(op') => cache' = cache /\ lastUpdate' = lastUpdate]_vars

\* a folder was renamed while the index held records
C17_Witness ==
    /\ op.kind = "rename"
    /\ op.path = DirN.path
    /\ Len(cache) > 0

\* the markdown documents of the collection whose header flattens to the
\* non-ignored key k
DocsWith(v, k, ignoreSet) ==
    {f.path : f \in {g \in Files : /\ g.extension = "md"
                                    /\ v[g.path] # "absent"
                                    /\ k \in KeysOf(v, g.path, ignoreSet)}}

\* C12: after a full rebuild a record named k exists exactly when some
\* markdown document's header flattens to the non-ignored key k, there is one
\* such record, its owning files are exactly those documents and its count
\* is their number
C12_RebuildMatchesCollection ==
    op.kind = "getFields" /\ op.rebuilt =>
        /\ Names(cache) = {k \in FieldNames : DocsWith(vault, k, ignoreFields) # {}}
        /\ \A i \in 1..Len(cache) :
              /\ Owners(cache[i]) = DocsWith(vault, cache[i].name, ignoreFields)
              /\ cache[i].count = Cardinality(DocsWith(vault, cache[i].name, ignoreFields))
              /\ Len(cache[i].files) = cache[i].count
              /\ \A j \in 1..Len(cache) : cache[j].name = cache[i].name => j = i

\* a rebuild over A (tags, author.name), B (author.name) and a third file
\* that is no markdown document: tags has 1 document, author.name has 2
C12_Witness ==
    /\ op.kind = "getFields"
    /\ op.rebuilt
    /\ vault[MdA.path] = "hA"
    /\ vault[MdB.path] = "hDup"
    /\ vault[TxtA.path] = "hA"
    /\ IndexView(cache) =
          {[name |-> "tags", count |-> 1, owners |-> {MdA.path}],
           [name |-> "author.name", count |-> 2, owners |-> {MdA.path, MdB.path}]}

\* C13: every sequence getFields returns is ordered by count, highest first,
\* whether it is served from the cache after notifications or freshly rebuilt
C13_ReturnedSortedByCount ==
    op.kind = "getFields" =>
        \A i, j \in 1..Len(cache) : i < j => cache[i].count >= cache[j].count

\* the operations that clear the cache
Clears == {"clearCache", "menuIgnore"}

\* C14: clearCache empties the index and resets lastUpdate to 0, and a
\* getFields that directly follows it performs a full rebuild: it reads the
\* header of every markdown document and sets lastUpdate to now
C14_ClearForcesRebuild ==
    [][/\ op'.kind \in Clears => cache' = << >> /\ lastUpdate' = NeverUpdated
       /\ op.kind \in Clears /\ op'.kind = "getFields" =>
             /\ op'.rebuilt
             /\ op'.reads = {f.path : f \in {g \in Files :
                                 g.extension = "md" /\ vault[g.path] # "absent"}}
             /\ lastUpdate' = now]_vars

\* the cache was just cleared while a markdown document has a header
C14_Witness ==
    /\ op.kind = "clearCache"
    /\ cache = << >>
    /\ lastUpdate = NeverUpdated
    /\ vault[MdA.path] = "hA"

\* C15: no read and no notification handler runs between the assignment of
\* the new ignore list and the clearing of the cache
C15_NothingRunsBeforeClear ==
    op.kind \in Notifications \cup {"getFields"} => pendingClear = 0

\* C16 as stated: a getFields that directly follows a notification applied to
\* a populated index whose cache duration has not expired serves the updated
\* index and performs no full rebuild
C16_NoRebuildAfterNotification ==
    [][op.kind \in Notifications /\ op.valid /\ op'.kind = "getFields" =>
          ~op'.rebuilt /\ op'.reads = {} /\ cache' = cache]_vars

\* C16, amended: the same, provided the notification left a record in the index
C16_NoRebuildWhileRecordsRemain ==
    [][op.kind \in Notifications /\ op.valid /\ Len(cache) > 0
          /\ op'.kind = "getFields" =>
          ~op'.rebuilt /\ op'.reads = {} /\ cache' = cache]_vars

\* a deleted notification found a populated index in its cache duration and
\* left a record in it; the clock has advanced since the index was refreshed
C16_Witness ==
    /\ op.kind = "delete"
    /\ op.valid
    /\ Len(cache) > 0
    /\ now > lastUpdate
    /\ lastUpdate # NeverUpdated

\* the markdown documents of the collection, in the order of the rebuild
Docs(v) == {MarkdownFiles(v)[i].path : i \in 1..Len(MarkdownFiles(v))}

\* C18: a full rebuild runs to completion over the whole collection: a
\* getFields that fetched a header fetched the header of every markdown
\* document and returned the rebuilt index, whatever the headers hold
C18_RebuildCompletes ==
    op.kind \in {"getFields", "getFieldsThrew"} /\ op.reads # {} =>
        op.rebuilt /\ op.reads = Docs(vault)

\* the flattened entries of the header of a document
EntriesOf(v, path) ==
    IF HasFrontmatter(v, path) THEN flattenFrontmatter(Frontmatter(v[path]), "")
    ELSE << >>

\* the string renderings of the non-array leaf values the markdown documents
\* give the key k
RenderedValues(v, k) ==
    UNION {{EntriesOf(v, p)[i][2].str : i \in {n \in 1..Len(EntriesOf(v, p)) :
                /\ EntriesOf(v, p)[n][1] = k
                /\ EntriesOf(v, p)[n][2].type # "array"}} : p \in Docs(v)}

\* C19: with value analysis enabled, after a full rebuild every record's
\* unique is the number of distinct string renderings of the non-array leaf
\* values its owning documents give the field
C19_UniqueCountsRenderedValues ==
    op.kind = "getFields" /\ op.rebuilt /\ analyzeValues =>
        \A i \in 1..Len(cache) :
            /\ cache[i].valueStats.defined
            /\ cache[i].valueStats.unique =
                   Cardinality(RenderedValues(vault, cache[i].name))

\* the rendering a document is counted with for the key k: that of the first
\* pair of its header with that key, if it is no array ("" stands for none)
CountedAs(v, p, k) ==
    LET entries == EntriesOf(v, p)
        at      == {n \in 1..Len(entries) : entries[n][1] = k}
    IN  IF at = {} THEN ""
        ELSE LET first == CHOOSE n \in at : \A m \in at : n <= m
             IN  IF entries[first][2].type = "array" THEN ""
                 ELSE entries[first][2].str

\* the occurrence count of a rendered value of the key k
Occurrences(v, k, val) == Cardinality({p \in Docs(v) : CountedAs(v, p, k) = val})

\* the place, in the order of the rebuild, of the first document that is
\* counted with the value
FirstSeen(v, k, val) ==
    CHOOSE i \in 1..Len(MarkdownFiles(v)) :
        /\ CountedAs(v, MarkdownFiles(v)[i].path, k) = val
        /\ \A j \in 1..(i - 1) : CountedAs(v, MarkdownFiles(v)[j].path, k) # val

\* value a comes before value b: a higher count, or the same count and
\* encountered first
Before(v, k, a, b) ==
    \/ Occurrences(v, k, a) > Occurrences(v, k, b)
    \/ /\ Occurrences(v, k, a) = Occurrences(v, k, b)
       /\ FirstSeen(v, k, a) < FirstSeen(v, k, b)

C24_NamesAreUnique ==
    \A i, j \in 1..Len(cache) : cache[i].name = cache[j].name => i = j

\* a changed notification added a document to a record that a rebuild had
\* made and that another document owns as well
C24_Witness ==
    /\ op.kind = "change"
    /\ history = "synced"
    /\ Len(cache) = 2
    /\ \E i \in 1..Len(cache) :
          /\ cache[i].name = "author.name"
          /\ Owners(cache[i]) = {MdA.path, MdB.path}

\* C29: after any sequence of operations every record has a count of at
\* least 1 and a files list that is not empty
C29_NoEmptyRecord ==
    \A i \in 1..Len(cache) : cache[i].count >= 1 /\ Len(cache[i].files) >= 1

\* a deleted notification took the only document of the record tags away,
\* the record author.name has a document left
C29_Witness ==
    /\ op.kind = "delete"
    /\ op.path = MdB.path
    /\ history = "synced"
    /\ vault[MdA.path] = "hDup"
    /\ Names(cache) = {"author.name"}
    /\ \A i \in 1..Len(cache) : Owners(cache[i]) = {MdA.path}

\* how deep and how wide the headers of the model are at most
MaxDepth == 3
MaxWidth == 3

\* the positions of a record: the sequences of indices that lead, through
\* nested records only, to one of its values
RECURSIVE IsPosition(_, _)
IsPosition(obj, s) ==
    /\ s[1] \in 1..Len(obj)
    /\ \/ Len(s) = 1
       \/ /\ obj[s[1]][2].type = "object"
          /\ IsPosition(obj[s[1]][2].entries, Tail(s))

RECURSIVE ValueAt(_, _)
ValueAt(obj, s) ==
    IF Len(s) = 1 THEN obj[s[1]][2] ELSE ValueAt(obj[s[1]][2].entries, Tail(s))

\* the ancestor keys of a position and its own key, joined with "."
RECURSIVE JoinKeys(_, _)
JoinKeys(obj, s) ==
    IF Len(s) = 1 THEN obj[s[1]][1]
    ELSE obj[s[1]][1] \o "." \o JoinKeys(obj[s[1]][2].entries, Tail(s))

\* the positions of the values that are no nested record
LeafPositions(obj) ==
    {s \in UNION {[1..d -> 1..MaxWidth] : d \in 1..MaxDepth} :
        IsPosition(obj, s) /\ ValueAt(obj, s).type # "object"}

\* depth-first order of the positions: the order of the first index in
\* which they differ
ComesBefore(s, t) ==
    \E i \in 1..Len(s) :
        /\ i <= Len(t)
        /\ s[i] < t[i]
        /\ \A j \in 1..(i - 1) : s[j] = t[j]

\* the result has one pair for every leaf position, with the joined keys and
\* the value, in depth-first order of the positions
IsFlattening(result, obj) ==
    /\ Len(result) = Cardinality(LeafPositions(obj))
    /\ \A s \in LeafPositions(obj) :
          LET place == 1 + Cardinality({t \in LeafPositions(obj) : ComesBefore(t, s)})
          IN  place <= Len(result)
              /\ result[place] = <<JoinKeys(obj, s), ValueAt(obj, s)>>

\* C21: flattenFrontmatter returns exactly one pair for every value that is
\* no nested record (arrays are leaves), its path the ancestor keys joined
\* with ".", in depth-first key insertion order of the header
C21_FlattenIsLeavesInInsertionOrder ==
    \A p \in op.reads :
        HasFrontmatter(vault, p) =>
            IsFlattening(flattenFrontmatter(Frontmatter(vault[p]), ""),
                         Frontmatter(vault[p]))

\* C28: flattenFrontmatter never yields the same dotted path in two pairs
C28_FlattenedKeysAreUnique ==
    \A p \in op.reads :
        LET result == EntriesOf(vault, p)
        IN  \A i, j \in 1..Len(result) : result[i][1] = result[j][1] => i = j

\* the top-level keys of a header whose value is a nested record without keys
EmptyRecordKeys(obj) == {obj[i][1] : i \in {n \in 1..Len(obj) : obj[n][2] = Obj(<< >>)}}

\* the header holds such keys and nothing else
OnlyEmptyRecords(obj) ==
    obj # << >> /\ \A i \in 1..Len(obj) : obj[i][2] = Obj(<< >>)

\* C30: a header key whose value is a nested record without keys yields no
\* flattened pair: the incremental add and the full rebuild make no record
\* for it, and a document whose header holds nothing else gains no record
\* and is added to no owning set
C30_EmptyRecordYieldsNothing ==
    [][/\ \A p \in op'.reads :
             HasFrontmatter(vault', p) =>
                /\ KeysOf(vault', p, {}) \cap EmptyRecordKeys(Frontmatter(vault'[p])) = {}
                /\ Names(cache') \cap EmptyRecordKeys(Frontmatter(vault'[p])) = {}
                /\ OnlyEmptyRecords(Frontmatter(vault'[p])) =>
                      /\ EntriesOf(vault', p) = << >>
                      /\ \A i \in 1..Len(cache') : p \notin Owners(cache'[i])
       /\ op'.kind \in {"create", "change"} /\ HasFrontmatter(vault', op'.path)
             /\ OnlyEmptyRecords(Frontmatter(vault'[op'.path])) =>
                Names(cache') \subseteq Names(cache)]_vars

\* a changed notification delivered a header that holds only an empty
\* record, for a document that owned the field tags before; the other
\* document keeps its record
C30_Witness ==
    /\ op.kind = "change"
    /\ op.path = MdA.path
    /\ vault[MdA.path] = "hOnlyEmpty"
    /\ vault[MdB.path] = "hEmptyRec"
    /\ IndexView(cache) = {[name |-> "tags", count |-> 1, owners |-> {MdB.path}]}

\* a full rebuild over a document whose header holds only an empty record
\* and one that has a field beside it
C30_WitnessRebuild ==
    /\ op.kind = "getFields"
    /\ op.rebuilt
    /\ vault[MdA.path] = "hOnlyEmpty"
    /\ vault[MdB.path] = "hEmptyRec"
    /\ IndexView(cache) = {[name |-> "tags", count |-> 1, owners |-> {MdB.path}]}

\* C26 as stated: getFields never serves the cached index when more than
\* cacheTTL seconds have passed since the last full rebuild, whatever
\* notifications were handled since
C26_CachedReadWithinTTLOfRebuild ==
    op.kind = "getFields" /\ ~op.rebuilt /\ history = "synced" =>
        now - lastRebuild <= cacheTTL * MsPerSecond

\* the operation added a markdown document that has a header to the index
AddedDocument(o, v) ==
    /\ o.kind \in {"create", "createTwice", "change"}
    /\ o.path \in Paths
    /\ FileAt(o.path).extension = "md"
    /\ HasFrontmatter(v, o.path)

\* C26, amended: getFields never serves the cached index when cacheTTL
\* seconds or more have passed since lastUpdate, and lastUpdate is set to the
\* current time by a full rebuild and by every created or changed
\* notification of a markdown document that has a header, to 0 by clearCache,
\* and by nothing else
C26_CachedReadWithinTTLOfRefresh ==
    [][/\ op'.kind = "getFields" /\ ~op'.rebuilt =>
             now - lastUpdate < cacheTTL * MsPerSecond
       /\ AddedDocument(op', vault') \/ (op'.kind = "getFields" /\ op'.rebuilt) =>
             lastUpdate' = now'
       /\ lastUpdate' # lastUpdate =>
             \/ AddedDocument(op', vault') /\ lastUpdate' = now'
             \/ op'.kind = "getFields" /\ op'.rebuilt /\ lastUpdate' = now'
             \/ op'.kind \in Clears /\ lastUpdate' = NeverUpdated]_vars

\* the cached index is served although more than cacheTTL seconds have
\* passed since it was rebuilt: a notification refreshed lastUpdate since
C26_Witness ==
    /\ op.kind = "getFields"
    /\ ~op.rebuilt
    /\ history = "synced"
    /\ now - lastRebuild > cacheTTL * MsPerSecond
    /\ now - lastUpdate < cacheTTL * MsPerSecond

\* the operation was a full rebuild, completed or aborted by an exception
IsFullRebuild(o) ==
    \/ o.kind = "getFields" /\ o.rebuilt
    \/ o.kind = "getFieldsThrew"

\* a reported percentage is less than another
LessPercentage(p, q) ==
    p.processedFiles * q.totalFiles < q.processedFiles * p.totalFiles

\* C22: a full rebuild with a progress callback and showProgress set calls the
\* callback exactly once per markdown document, after the k-th document with
\* 100 * k / total; the values increase strictly and the last one is 100;
\* this holds with the value analysis on and off
C22_ProgressOncePerDocument ==
    IsFullRebuild(op) /\ op.callback /\ showProgress =>
        LET totalFiles == Len(MarkdownFiles(vault))
        IN  /\ Len(op.progress) = totalFiles
            /\ \A k \in 1..Len(op.progress) :
                   /\ op.progress[k].processedFiles = k
                   /\ op.progress[k].totalFiles = totalFiles
            /\ \A k \in 1..(Len(op.progress) - 1) :
                   LessPercentage(op.progress[k], op.progress[k + 1])
            /\ totalFiles > 0 =>
                   /\ op.progress # << >>
                   /\ op.progress[Len(op.progress)].processedFiles
                          = op.progress[Len(op.progress)].totalFiles

\* C23: with showProgress off getFields never calls the progress callback,
\* whether the documents have a header or not
C23_NoProgressWhenSwitchedOff ==
    op.kind \in {"getFields", "getFieldsThrew"} /\ ~showProgress =>
        op.progress = << >>

\* C25: with the value analysis on, after a created, changed, deleted or
\* renamed notification applied to a populated index (one a full rebuild
\* made under the settings in force), every record has the valueStats a full
\* rebuild over the current collection gives the field of that name
C25_ValueStatsFollowNotifications ==
    /\ op.kind \in Notifications
    /\ op.valid
    /\ history = "synced"
    /\ analyzeValues
    => LET rebuilt == Rebuild(vault, ignoreFields)
       IN  \A i \in 1..Len(cache) :
               \A j \in 1..Len(rebuilt) :
                   rebuilt[j].name = cache[i].name =>
                       cache[i].valueStats = rebuilt[j].valueStats

\* every record of the index has as many files as its count says
CountsMatchFiles(fields) ==
    \A i \in 1..Len(fields) : fields[i].count = Len(fields[i].files)

\* C27: the handlers and the full rebuild run to completion: while
\* addFileToCache is running the next step is its own, and it ends with the
\* index the whole handler makes of the one it began with; no notification is
\* handled between the start of a full rebuild and the assignment of the
\* rebuilt index, which is that of the collection as it is then; and no
\* result of getFields holds a record whose file was pushed and whose count
\* was not yet incremented
C27_OperationsRunToCompletion ==
    [][/\ running.kind = "add" =>
             /\ vault' = vault
             /\ \/ /\ running'.kind = "add"
                   /\ running'.file = running.file
                   /\ running'.start = running.start
                \/ /\ running' = Idle
                   /\ op'.kind = running.notify
                   /\ op'.path = running.file.path
                   /\ cache' = AddFileToCache(running.start, running.file, vault,
                                              ignoreFields)
       /\ running.kind = "rebuild" =>
             /\ vault' = vault
             /\ \/ running'.kind = "rebuild" /\ cache' = cache
                \/ running' = Idle /\ op'.kind = "getFieldsThrew" /\ cache' = cache
                \/ running' = Idle /\ op'.kind = "getFields" /\ op'.rebuilt
       /\ op'.kind = "getFields" /\ op'.rebuilt =>
             cache' = Rebuild(vault', ignoreFields')
       /\ op'.kind = "getFields" => CountsMatchFiles(cache')]_vars

\* addFileToCache has pushed a file to a record of a populated index that
\* getFields would serve, and has not yet incremented the record's count
C27_Witness ==
    /\ running.kind = "add"
    /\ running.pushed
    /\ CacheValid
    /\ ~CountsMatchFiles(cache)

====
